---- MODULE Spec2Model ----
(***************************************************************************)
(* FortuNet hotspot billing bridge: the relational store (database.py),    *)
(* the payment endpoints and the access provisioner                        *)
(* (flask_api_endpoints.py) and the gateway client (mpesa_stkpush.py).     *)
(*                                                                         *)
(* Time is counted in hours.  SQL NULL / Python None is NULL where the     *)
(* value would be a number or a timestamp and NONE where it would be text. *)
(* An Optional[Dict] is a sequence of length 0 (None) or 1 (the row); a    *)
(* Python str that the code slices is a sequence of one-character strings. *)
(***************************************************************************)
EXTENDS Integers, Sequences, FiniteSets, TLC

\* ---------------------------------------------------------------- bounds
MaxUsers == 2
MaxAccounts == 1
MaxTxns == 1
MaxTime == 2
MaxPools == 3
MaxClock == 3
MaxAttempts == 2
MaxPlans == 2

NULL == -1
NONE == "None"

\* ---------------------------------------------------------------- inputs
MacInputs == {"aa:01", "aa:02"}
UsernameInputs == {"alice"}
PasswordInputs == {"pw"}
PhoneInputs == {"0712345678"}
UserIdInputs == 1 .. MaxAccounts
RowIdInputs == 1 .. MaxUsers
PackageIdInputs == {4, 9, 13}
AmountInputs == {20, 500}
TxnIdInputs == 1 .. MaxTxns
TxnUserInputs == {1}
TxnPackageInputs == {9}
Subscriber == <<"7", "1", "2", "3", "4", "5", "6", "7", "8">>
\* 0712345678, +254712345678, 254712345678 and 712345678
PhoneNumberInputs ==
    { <<"0">> \o Subscriber, <<"+", "2", "5", "4">> \o Subscriber,
      <<"2", "5", "4">> \o Subscriber, Subscriber }
InitiatePackageInputs == {9, 13}
\* <<the token request succeeds, the push request succeeds>>; the push
\* outcome is only read when the token request succeeded
GatewayInputs == {<<FALSE, FALSE>>, <<TRUE, FALSE>>, <<TRUE, TRUE>>}
CheckoutIds == {"ws_CO_1", "ws_CO_2"}
StatusInputs == {"pending", "completed", "failed"}
ResultCodeInputs == {0, 1, NULL}
\* what the router does during one activation: "down" - get_api() raises,
\* "rejects" - the hotspot user update raises, "accepts" - both succeed
RouterInputs == {"down", "rejects", "accepts"}

\* ------------------------------------------------------- package catalog
Pkg(name, description, price, duration_hours, data_limit_gb, speed_limit_mbps, package_type) ==
    [name |-> name, description |-> description, price |-> price,
     duration_hours |-> duration_hours, data_limit_gb |-> data_limit_gb,
     speed_limit_mbps |-> speed_limit_mbps, package_type |-> package_type,
     is_active |-> 1]

daily_packages ==
    << Pkg("24 Hrs Unlimited", "24 hours unlimited internet", 100, 24, NULL, NULL, "daily"),
       Pkg("12 Hrs Unlimited", "12 hours unlimited internet", 50, 12, NULL, NULL, "daily"),
       Pkg("6 Hrs Unlimited", "6 hours unlimited internet", 30, 6, NULL, NULL, "daily"),
       Pkg("1 Hr Unlimited", "1 hour unlimited internet", 20, 1, NULL, NULL, "daily") >>

weekly_packages ==
    << Pkg("10 GB", "10 GB data for 7 days", 150, 168, 10, NULL, "weekly"),
       Pkg("20 GB", "20 GB data for 7 days", 250, 168, 20, NULL, "weekly"),
       Pkg("40 GB", "40 GB data for 7 days", 450, 168, 40, NULL, "weekly") >>

monthly_packages ==
    << Pkg("1 Mbps", "1 Mbps unlimited for 30 days", 300, 720, NULL, 1, "monthly"),
       Pkg("2 Mbps", "2 Mbps unlimited for 30 days", 500, 720, NULL, 2, "monthly"),
       Pkg("5 Mbps", "5 Mbps unlimited for 30 days", 900, 720, NULL, 5, "monthly"),
       Pkg("10 Mbps", "10 Mbps unlimited for 30 days", 1500, 720, NULL, 10, "monthly"),
       Pkg("20 Mbps", "20 Mbps unlimited for 30 days", 2500, 720, NULL, 20, "monthly") >>

all_packages == daily_packages \o weekly_packages \o monthly_packages

\* ------------------------------------------------------------------ state
VARIABLES
    users,          \* users table: id -> row
    userSeq,        \* AUTOINCREMENT counter of users
    packages,       \* packages table: id -> row
    transactions,   \* transactions table: id -> row
    txnSeq,         \* AUTOINCREMENT counter of transactions
    routerUsers,    \* hotspot users written on the router: name -> limits
    now,            \* the clock, in hours
    lastOp,         \* the last operation run, its inputs and its outcome
    workers,        \* worker process -> the call it is running and where it is
    provisions,     \* transaction id -> activate_user_package calls made for it
                    \* by callback handlers (counted up to 2)
    mikrotik,       \* the global MikroTikAPI instance and the router it talks to
    plans,          \* internet_plans.json and the requests working on it
    stk             \* the STK push requests built and the clock they read

vars == <<users, userSeq, packages, transactions, txnSeq, routerUsers, now, lastOp,
          workers, provisions, mikrotik, plans, stk>>

\* the state of mikrotik_api.py and of the gateway client
services == <<mikrotik, plans, stk>>

\* ---------------------------------------------------------------- helpers
\* f with key k bound to v (k may be new)
Put(f, k, v) == [x \in DOMAIN f \cup {k} |-> IF x = k THEN v ELSE f[x]]

\* f without the keys in S
Drop(f, S) == [x \in DOMAIN f \ S |-> f[x]]

\* ------------------------------------------------------ Database: queries
get_package_by_id(package_id) ==
    IF package_id \in DOMAIN packages /\ packages[package_id].is_active = 1
    THEN << [id |-> package_id,
             name |-> packages[package_id].name,
             description |-> packages[package_id].description,
             price |-> packages[package_id].price,
             duration_hours |-> packages[package_id].duration_hours,
             data_limit_gb |-> packages[package_id].data_limit_gb,
             speed_limit_mbps |-> packages[package_id].speed_limit_mbps,
             package_type |-> packages[package_id].package_type] >>
    ELSE << >>

get_user_by_id(user_id) ==
    IF user_id \in DOMAIN users THEN << users[user_id] >> ELSE << >>

\* ------------------------------------------------------- Database: rows
sha256(password) == "sha256:" \o password

\* variant: a MAC account also gets its address as username
NewUserRowNamed(username, password, phone_number, mac_address) ==
    [username |-> IF username = NONE THEN mac_address ELSE username,
     password |-> password, phone_number |-> phone_number,
     mac_address |-> mac_address, last_login |-> NULL,
     current_package_id |-> NULL, package_expires_at |-> NULL]

\* the row INSERT INTO users leaves: columns not named are NULL
NewUserRow(username, password, phone_number, mac_address) ==
    [username |-> username, password |-> password, phone_number |-> phone_number,
     mac_address |-> mac_address, last_login |-> NULL,
     current_package_id |-> NULL, package_expires_at |-> NULL]

\* assign_package_to_user that forgets the expiry column
AssignedRowNoExpiry(row, package_id, expires_at) ==
    [row EXCEPT !.current_package_id = package_id]

\* the SET clause of assign_package_to_user
AssignedRow(row, package_id, expires_at) ==
    [row EXCEPT !.current_package_id = package_id, !.package_expires_at = expires_at]

\* variant: completed_at is only ever set, never cleared
StatusRowKeepsCompletedAt(row, status) ==
    [row EXCEPT !.status = status,
                !.completed_at = IF status = "completed" THEN now ELSE row.completed_at]

\* the SET clause of update_transaction_status
StatusRow(row, status) ==
    [row EXCEPT !.status = status,
                !.completed_at = IF status = "completed" THEN now ELSE NULL]

\* ----------------------------------------------------- Database: actions
\* variant: the defaults are inserted without counting the rows first
insert_default_packages_always(table) ==
    table \o all_packages

\* the packages table after insert_default_packages ran on `table`
insert_default_packages(table) ==
    IF Len(table) > 0 THEN table ELSE table \o all_packages

\* init_database: CREATE TABLE IF NOT EXISTS leaves existing tables alone,
\* then insert_default_packages
init_database ==
    /\ packages' = insert_default_packages(packages)
    /\ lastOp' = [op |-> "init_database"]
    /\ UNCHANGED <<users, userSeq, transactions, txnSeq, routerUsers, now, workers,
                   provisions, services>>

\* lastOp.conn_closed: the method ran conn.close() on the connection it
\* opened before it returned or raised
\* the UNIQUE constraints of users.mac_address and users.username
MacTaken(mac_address) == \E u \in DOMAIN users : users[u].mac_address = mac_address
UsernameTaken(username) == \E u \in DOMAIN users : users[u].username = username

create_mac_user(mac_address, phone_number) ==
    /\ IF MacTaken(mac_address)
       THEN /\ UNCHANGED <<users, userSeq>>
            /\ lastOp' = [op |-> "create_mac_user", raised |-> TRUE, conn_closed |-> TRUE]
       ELSE /\ userSeq < MaxUsers
            /\ users' = Put(users, userSeq + 1, NewUserRow(NONE, NONE, phone_number, mac_address))
            /\ userSeq' = userSeq + 1
            /\ lastOp' = [op |-> "create_mac_user", raised |-> FALSE, conn_closed |-> TRUE]
    /\ UNCHANGED <<packages, transactions, txnSeq, routerUsers, now, workers, provisions, services>>

create_user(username, password, phone_number) ==
    /\ IF UsernameTaken(username)
       THEN /\ UNCHANGED <<users, userSeq>>
            /\ lastOp' = [op |-> "create_user", raised |-> TRUE, conn_closed |-> TRUE]
       ELSE /\ userSeq < MaxUsers
            /\ users' = Put(users, userSeq + 1, NewUserRow(username, sha256(password), phone_number, NONE))
            /\ userSeq' = userSeq + 1
            /\ lastOp' = [op |-> "create_user", raised |-> FALSE, conn_closed |-> TRUE]
    /\ UNCHANGED <<packages, transactions, txnSeq, routerUsers, now, workers, provisions, services>>

delete_mac_user(mac_address) ==
    LET hit == {u \in DOMAIN users : users[u].mac_address = mac_address} IN
    /\ users' = Drop(users, hit)
    /\ lastOp' = [op |-> "delete_mac_user", raised |-> (hit = {}),
                  conn_closed |-> (hit # {})]
    /\ UNCHANGED <<userSeq, packages, transactions, txnSeq, routerUsers, now, workers, provisions, services>>

update_last_login(user_id) ==
    /\ users' = [u \in DOMAIN users |->
                    IF u = user_id THEN [users[u] EXCEPT !.last_login = now] ELSE users[u]]
    /\ lastOp' = [op |-> "update_last_login", raised |-> FALSE, conn_closed |-> TRUE]
    /\ UNCHANGED <<userSeq, packages, transactions, txnSeq, routerUsers, now, workers, provisions, services>>

\* the users table after assign_package_to_user
AssignPackage(user_id, package_id) ==
    LET package == get_package_by_id(package_id) IN
    IF package = << >>
    THEN users
    ELSE [u \in DOMAIN users |->
             IF u = user_id
             THEN AssignedRow(users[u], package_id, now + package[1].duration_hours)
             ELSE users[u]]

assign_package_to_user(user_id, package_id) ==
    /\ users' = AssignPackage(user_id, package_id)
    /\ lastOp' = [op |-> "assign_package_to_user",
                  raised |-> (get_package_by_id(package_id) = << >>),
                  conn_closed |-> (get_package_by_id(package_id) # << >>)]
    /\ UNCHANGED <<userSeq, packages, transactions, txnSeq, routerUsers, now, workers, provisions, services>>

create_transaction(user_id, package_id, amount, phone_number, transaction_id) ==
    /\ txnSeq < MaxTxns
    /\ transactions' = Put(transactions, txnSeq + 1,
                           [user_id |-> user_id, package_id |-> package_id,
                            amount |-> amount, payment_method |-> "mpesa",
                            transaction_id |-> transaction_id, status |-> "pending",
                            phone_number |-> phone_number, completed_at |-> NULL])
    /\ txnSeq' = txnSeq + 1
    /\ lastOp' = [op |-> "create_transaction", raised |-> FALSE, conn_closed |-> TRUE]
    /\ UNCHANGED <<users, userSeq, packages, routerUsers, now, workers, provisions, services>>

update_transaction_status(transaction_id, status) ==
    /\ transactions' = [t \in DOMAIN transactions |->
                           IF t = transaction_id
                           THEN StatusRow(transactions[t], status)
                           ELSE transactions[t]]
    /\ lastOp' = [op |-> "update_transaction_status", raised |-> FALSE, conn_closed |-> TRUE]
    /\ UNCHANGED <<users, userSeq, packages, txnSeq, routerUsers, now, workers, provisions, services>>

\* variant: an expiry equal to the time of the read still counts as active
has_active_package_inclusive(row) ==
    /\ row.current_package_id # NULL
    /\ row.package_expires_at # NULL
    /\ row.package_expires_at >= now

\* the has_active_package expression of check_user_package_status on the row
\* read; package_expires_at is stored and read back as the same instant
has_active_package(row) ==
    /\ row.current_package_id # NULL
    /\ row.package_expires_at # NULL
    /\ row.package_expires_at > now

check_user_package_status(user_id) ==
    LET row == get_user_by_id(user_id) IN
    /\ lastOp' = IF row = << >>
                 THEN [op |-> "check_user_package_status", user_id |-> user_id,
                       has_active_package |-> FALSE]
                 ELSE [op |-> "check_user_package_status", user_id |-> user_id,
                       has_active_package |-> has_active_package(row[1])]
    /\ UNCHANGED <<users, userSeq, packages, transactions, txnSeq, routerUsers, now, workers, provisions, services>>

\* --------------------------------------------------- access provisioner
\* d[k] on a Python dict raises KeyError unless k is a key of d
HasKey(d, k) == k \in DOMAIN d

\* variant: the router connection is opened before the lookups are checked
ActivateStepsConnectFirst(user_id, package_id, router) ==
    LET package == get_package_by_id(package_id)
        user == get_user_by_id(user_id)
        found == package # << >> /\ user # << >>
        connected == router # "down"
        called == /\ connected /\ found
                  /\ HasKey(user[1], "username")
                  /\ HasKey(package[1], "name")
                  /\ HasKey(package[1], "validity")
        updated == called /\ router = "accepts"
    IN [found |-> found, connected |-> connected, called |-> called,
        updated |-> updated, assigned |-> updated]

\* activate_user_package that records the package before it talks to the router
ActivateStepsEager(user_id, package_id, router) ==
    LET found == get_package_by_id(package_id) # << >> /\ get_user_by_id(user_id) # << >>
    IN  [found |-> found, connected |-> found /\ router # "down", called |-> FALSE,
         updated |-> FALSE, assigned |-> found]

\* How far activate_user_package gets:
\*   found     - package and user were both loaded
\*   connected - the router API handle was obtained
\*   called    - the arguments of update() were evaluated and the call sent
\*   updated   - the router reported success
\*   assigned  - db.assign_package_to_user was run
ActivateSteps(user_id, package_id, router) ==
    LET package == get_package_by_id(package_id)
        user == get_user_by_id(user_id)
        found == package # << >> /\ user # << >>
        connected == found /\ router # "down"
        called == /\ connected
                  /\ HasKey(user[1], "username")
                  /\ HasKey(package[1], "name")
                  /\ HasKey(package[1], "validity")
        updated == called /\ router = "accepts"
    IN  [found |-> found, connected |-> connected, called |-> called,
         updated |-> updated, assigned |-> updated]

activate_user_package(user_id, package_id, router) ==
    LET steps == ActivateSteps(user_id, package_id, router) IN
    /\ routerUsers' =
          IF steps.updated
          THEN Put(routerUsers, users[user_id].username,
                   [profile |-> get_package_by_id(package_id)[1].name,
                    limit_uptime |-> get_package_by_id(package_id)[1].validity])
          ELSE routerUsers
    /\ users' = IF steps.assigned THEN AssignPackage(user_id, package_id) ELSE users
    /\ lastOp' = [op |-> "activate_user_package", user_id |-> user_id,
                  package_id |-> package_id,
                  router |-> router,
                  found |-> steps.found, connected |-> steps.connected,
                  router_ok |-> steps.updated,
                  raised |-> ~steps.assigned]
    /\ UNCHANGED <<userSeq, packages, transactions, txnSeq, now, workers, provisions, services>>

\* ------------------------------------------------------- payment gateway
startswith(s, c) == Len(s) >= 1 /\ s[1] = c

\* the phone number process_payment sends to the gateway
FormatPhone(phone_number) ==
    IF startswith(phone_number, "0") THEN <<"2", "5", "4">> \o Tail(phone_number)
    ELSE IF startswith(phone_number, "+") THEN Tail(phone_number)
    ELSE phone_number

\* variant: the push request is sent whatever the token request answered
initiate_stk_push_unguarded(phone_number, amount, token_ok, push_ok) ==
    [success |-> token_ok /\ push_ok,
     token_calls |-> 1,
     push_calls |-> 1,
     phone |-> phone_number,
     amount |-> amount]

\* MpesaSTKPush.initiate_stk_push: token_ok and push_ok say whether the
\* gateway answers the token request and the push request with HTTP 200.
initiate_stk_push(phone_number, amount, token_ok, push_ok) ==
    [success |-> token_ok /\ push_ok,
     token_calls |-> 1,
     push_calls |-> IF token_ok THEN 1 ELSE 0,
     phone |-> IF token_ok THEN phone_number ELSE << >>,
     amount |-> IF token_ok THEN amount ELSE NULL]

\* A JSON value of the request body: a string (its characters) or a number
JsonStr(chars) == [type |-> "str", value |-> chars]
JsonNum(n) == [type |-> "number", value |-> n]

\* process_payment: phone_number is the JSON value of the request; on a value
\* that is not a str, .startswith raises and the except branch answers
\* {'success': False} before any gateway call
process_payment(phone_number, amount, token_ok, push_ok) ==
    IF phone_number.type # "str"
    THEN [success |-> FALSE, token_calls |-> 0, push_calls |-> 0,
          phone |-> << >>, amount |-> NULL]
    ELSE initiate_stk_push(FormatPhone(phone_number.value), amount, token_ok, push_ok)

\* ------------------------------------------------------ payment endpoints
required_fields_short == <<"phoneNumber", "packageId", "amount">>
required_fields == <<"phoneNumber", "packageId", "amount", "packageName">>

RequiredSet == {required_fields[i] : i \in DOMAIN required_fields}

\* the keys a client may send in the body of POST /api/initiate-payment
BodyKeys == {"phoneNumber", "packageId", "amount", "packageName"}

InitiateBodies ==
    {[kind |-> "malformed"], [kind |-> "null"]} \cup
    {[kind |-> "object", fields |-> F,
      phoneNumber |-> JsonStr(<<"0">> \o Subscriber), packageId |-> 9, amount |-> 500] :
        F \in {{}} \cup {BodyKeys \ {f} : f \in BodyKeys}} \cup
    {[kind |-> "object", fields |-> BodyKeys,
      phoneNumber |-> JsonNum(712345678), packageId |-> 9, amount |-> 500]} \cup
    {[kind |-> "object", fields |-> BodyKeys,
      phoneNumber |-> JsonStr(<<"0">> \o Subscriber), packageId |-> 9, amount |-> a] :
        a \in AmountInputs} \cup
    {[kind |-> "object", fields |-> BodyKeys,
      phoneNumber |-> JsonStr(ph), packageId |-> p, amount |-> 500] :
        ph \in PhoneNumberInputs, p \in InitiatePackageInputs}

\* request.get_json() raises on a body that is not JSON; a JSON null gives
\* None, on which `in` and .get raise
BodyRaises(body) == body.kind # "object"

initiate_payment(body, token_ok, push_ok) ==
    /\ IF BodyRaises(body)
       THEN lastOp' = [op |-> "initiate_payment", status |-> 500,
                       token_calls |-> 0, push_calls |-> 0]
       ELSE IF \E i \in DOMAIN required_fields : required_fields[i] \notin body.fields
       THEN lastOp' = [op |-> "initiate_payment", status |-> 400,
                       token_calls |-> 0, push_calls |-> 0, fields |-> body.fields]
       ELSE LET result == process_payment(body.phoneNumber, body.amount, token_ok, push_ok) IN
            lastOp' = [op |-> "initiate_payment",
                       status |-> IF result.success THEN 200 ELSE 400,
                       token_calls |-> result.token_calls,
                       push_calls |-> result.push_calls,
                       fields |-> body.fields,
                       phoneNumber |-> body.phoneNumber,
                       token_succeeded |-> result.token_calls > 0 /\ token_ok,
                       push_succeeded |-> result.push_calls > 0 /\ push_ok,
                       phone |-> result.phone, amount |-> result.amount,
                       packageId |-> body.packageId,
                       txns_before |-> DOMAIN transactions]
    /\ UNCHANGED <<users, userSeq, packages, transactions, txnSeq, routerUsers, now, workers, provisions, services>>

CallbackBodies ==
    {[kind |-> "malformed"], [kind |-> "null"]} \cup
    {[kind |-> "object", ResultCode |-> rc, CheckoutRequestID |-> c] :
        rc \in ResultCodeInputs, c \in CheckoutIds \cup {NONE}}

\* the transactions that carry the gateway correlation id `checkout_request_id`
Matching(checkout_request_id) ==
    {t \in DOMAIN transactions :
        /\ checkout_request_id # NONE
        /\ transactions[t].transaction_id = checkout_request_id}

\* variant: the ResultCode-0 branch records the status word of the response
CallbackUpdatesSuccess(data) ==
    IF data.ResultCode = 0
    THEN {<<t, "success">> : t \in Matching(data.CheckoutRequestID)}
    ELSE {}

\* the status updates mpesa_callback issues, as <<transaction id, status>>:
\* both branches of the handler are `pass`
CallbackUpdates(data) ==
    IF data.ResultCode = 0 THEN {} ELSE {}

\* mpesa_callback that answers 404 when no transaction carries the id
CallbackStatusNotFound(body) ==
    IF BodyRaises(body) THEN 500
    ELSE IF Matching(body.CheckoutRequestID) = {} THEN 404
    ELSE 200

\* the HTTP status mpesa_callback answers with
CallbackStatus(body) ==
    IF BodyRaises(body) THEN 500 ELSE 200

\* the transactions table after the status updates `updates`
ApplyUpdates(updates) ==
    [t \in DOMAIN transactions |->
        IF \E u \in updates : u[1] = t
        THEN StatusRow(transactions[t], (CHOOSE u \in updates : u[1] = t)[2])
        ELSE transactions[t]]

Min(a, b) == IF a < b THEN a ELSE b

\* lastOp of a callback also counts over the run of identical callbacks that
\* ends with this one: nth (1 or 2 = two or more), the transactions that
\* matched and were pending when the run began, the pending -> completed
\* transitions and the activate_user_package invocations the handler made.
mpesa_callback(body) ==
    LET updates == IF BodyRaises(body) THEN {} ELSE CallbackUpdates(body)
        after == ApplyUpdates(updates)
        matched == IF BodyRaises(body) THEN {} ELSE Matching(body.CheckoutRequestID)
        same == lastOp.op = "mpesa_callback" /\ lastOp.body = body
        done == Cardinality({t \in DOMAIN transactions :
                                /\ transactions[t].status # "completed"
                                /\ after[t].status = "completed"})
    IN
    /\ transactions' = after
    /\ lastOp' = [op |-> "mpesa_callback", body |-> body,
                  status |-> CallbackStatus(body),
                  matched |-> matched,
                  pending |-> IF same THEN lastOp.pending
                              ELSE {t \in matched : transactions[t].status = "pending"},
                  nth |-> IF same THEN 2 ELSE 1,
                  completions |-> Min(2, done + IF same THEN lastOp.completions ELSE 0),
                  provisions |-> 0]
    /\ UNCHANGED <<users, userSeq, packages, txnSeq, routerUsers, now, workers, provisions, services>>

\* ------------------------------------------------------ worker processes
\* gunicorn -w 4 runs the handlers in separate processes that share only the
\* database; two of them are modelled. A worker runs one call at a time, one
\* statement group per step, and may be killed between any two steps.
Workers == {"w1", "w2"}

Idle == [pc |-> "idle"]

WorkerBodies ==
    {[kind |-> "malformed"]} \cup
    {[kind |-> "object", ResultCode |-> rc, CheckoutRequestID |-> "ws_CO_1"] : rc \in {0, 1}}

\* variant: the ResultCode-0 branch provisions every transaction the id matches
CallbackActivationsUnchecked(data) ==
    IF data.ResultCode = 0 THEN Matching(data.CheckoutRequestID) ELSE {}

\* the transactions mpesa_callback calls activate_user_package for: both
\* branches of the handler are `pass`
CallbackActivations(data) ==
    IF data.ResultCode = 0 THEN {} ELSE {}

Bump(S) ==
    [t \in DOMAIN provisions |-> IF t \in S THEN Min(2, provisions[t] + 1) ELSE provisions[t]]

\* a callback request is handed to an idle worker: get_json and the two reads
worker_callback(w, body) ==
    /\ workers[w].pc = "idle"
    /\ workers' = [workers EXCEPT ![w] =
                      [pc |-> IF BodyRaises(body) THEN "cb_raised" ELSE "cb_parsed",
                       body |-> body]]
    /\ lastOp' = [op |-> "worker_callback"]
    /\ UNCHANGED <<users, userSeq, packages, transactions, txnSeq, routerUsers, now, provisions, services>>

\* the next step of mpesa_callback in worker w: the status update of the
\* branch taken, then its provisioner call, then the response
callback_step(w) ==
    LET me == workers[w] IN
    /\ me.pc \in {"cb_parsed", "cb_updated", "cb_activated", "cb_raised"}
    /\ IF me.pc = "cb_parsed"
       THEN /\ transactions' = ApplyUpdates(CallbackUpdates(me.body))
            /\ workers' = [workers EXCEPT ![w].pc = "cb_updated"]
            /\ lastOp' = [op |-> "callback_step"]
            /\ UNCHANGED provisions
       ELSE IF me.pc = "cb_updated"
       THEN /\ provisions' = Bump(CallbackActivations(me.body))
            /\ workers' = [workers EXCEPT ![w].pc = "cb_activated"]
            /\ lastOp' = [op |-> "callback_step"]
            /\ UNCHANGED transactions
       ELSE /\ workers' = [workers EXCEPT ![w] = Idle]
            /\ lastOp' = [op |-> "callback_return", status |-> CallbackStatus(me.body)]
            /\ UNCHANGED <<transactions, provisions>>
    /\ UNCHANGED <<users, userSeq, packages, txnSeq, routerUsers, now, services>>

\* activate_user_package is entered in worker w
worker_activate(w, user_id, package_id, router) ==
    /\ workers[w].pc = "idle"
    /\ workers' = [workers EXCEPT ![w] =
                      [pc |-> "act_called", user_id |-> user_id,
                       package_id |-> package_id, router |-> router]]
    /\ lastOp' = [op |-> "worker_activate"]
    /\ UNCHANGED <<users, userSeq, packages, transactions, txnSeq, routerUsers, now, provisions, services>>

\* the next step of activate_user_package in worker w: the two lookups, the
\* router connection, the hotspot-user update, the account update; a step
\* that raises ends the call
activate_step(w) ==
    LET me == workers[w]
        steps == ActivateSteps(me.user_id, me.package_id, me.router)
        goes(ok, pc) == workers' = [workers EXCEPT ![w] =
                                      IF ok THEN [me EXCEPT !.pc = pc] ELSE Idle]
    IN
    /\ me.pc \in {"act_called", "act_found", "act_connected", "act_updated"}
    /\ IF me.pc = "act_called"
       THEN goes(steps.found, "act_found") /\ UNCHANGED <<users, routerUsers>>
       ELSE IF me.pc = "act_found"
       THEN goes(steps.connected, "act_connected") /\ UNCHANGED <<users, routerUsers>>
       ELSE IF me.pc = "act_connected"
       THEN /\ goes(steps.updated, "act_updated")
            /\ routerUsers' =
                  IF steps.updated
                  THEN Put(routerUsers, users[me.user_id].username,
                           [profile |-> get_package_by_id(me.package_id)[1].name,
                            limit_uptime |-> get_package_by_id(me.package_id)[1].validity])
                  ELSE routerUsers
            /\ UNCHANGED users
       ELSE /\ users' = AssignPackage(me.user_id, me.package_id)
            /\ workers' = [workers EXCEPT ![w] = Idle]
            /\ UNCHANGED routerUsers
    /\ lastOp' = [op |-> "activate_step", at |-> me.pc]
    /\ UNCHANGED <<userSeq, packages, transactions, txnSeq, now, provisions, services>>

\* worker w is killed in the middle of the call it is running
worker_crash(w) ==
    /\ workers[w].pc # "idle"
    /\ workers' = [workers EXCEPT ![w] = Idle]
    /\ lastOp' = [op |-> "crash", job |-> workers[w]]
    /\ UNCHANGED <<users, userSeq, packages, transactions, txnSeq, routerUsers, now, provisions, services>>

\* ------------------------------------------------------------ MikroTikAPI
\* mikrotik: made       - the global mikrotik_api is a MikroTikAPI instance
\*           connection - self.connection is a RouterOsApiPool (else None)
\*           api        - self.api is set (else None)
\*           alive      - the session behind self.api still answers
\*           router     - "up" or "down": whether the router can be reached
\*           pools      - the pools created and not yet disconnected
NoInstance ==
    [made |-> FALSE, connection |-> FALSE, api |-> FALSE, alive |-> FALSE,
     router |-> "down", pools |-> 0]

OperationInputs ==
    {"get_system_info", "get_active_sessions", "get_hotspot_users",
     "disconnect_user", "block_user", "create_hotspot_user"}

\* what an operation returns from `if self.api is None` and from its except
FailureValue(operation) ==
    IF operation = "get_system_info" THEN "{}"
    ELSE IF operation \in {"get_active_sessions", "get_hotspot_users"} THEN "[]"
    ELSE "False"

\* _connect: a new pool is assigned to self.connection, then get_api() opens
\* the session; when it raises, the except branch only logs
connect(m) ==
    [m EXCEPT !.connection = TRUE,
              !.pools = m.pools + 1,
              !.api = IF m.router = "up" THEN TRUE ELSE m.api,
              !.alive = IF m.router = "up" THEN TRUE ELSE m.alive]

\* whether _reconnect_if_needed calls _connect
Reconnects(m) == ~m.api \/ ~(m.router = "up" /\ m.alive)

\* variant: without a session the instance gives up instead of connecting
reconnect_if_needed_once(m) ==
    IF ~m.api THEN m
    ELSE IF m.router = "up" /\ m.alive THEN m
    ELSE connect([m EXCEPT !.connection = FALSE, !.api = FALSE, !.alive = FALSE,
                           !.pools = IF m.connection THEN m.pools - 1 ELSE m.pools])

\* _reconnect_if_needed
reconnect_if_needed(m) ==
    IF ~m.api THEN connect(m)
    ELSE IF m.router = "up" /\ m.alive THEN m
    ELSE connect([m EXCEPT !.connection = FALSE, !.api = FALSE, !.alive = FALSE,
                           !.pools = IF m.connection THEN m.pools - 1 ELSE m.pools])

\* initialize_mikrotik: MikroTikAPI(config), whose __init__ calls _connect
initialize_mikrotik ==
    /\ ~mikrotik.made
    /\ mikrotik' = connect([mikrotik EXCEPT !.made = TRUE])
    /\ lastOp' = [op |-> "initialize_mikrotik"]
    /\ UNCHANGED <<users, userSeq, packages, transactions, txnSeq, routerUsers, now,
                   workers, provisions, plans, stk>>

HotspotNames == {"alice", "bob"}

\* one of the six router operations of MikroTikAPI; `username` is the name
\* create_hotspot_user adds, which the router refuses when it has the name.
\* lastOp.reached: the request of the operation was answered by the router
router_operation(operation, username) ==
    LET m == reconnect_if_needed(mikrotik)
        reached == m.api /\ m.router = "up"
        adds == operation = "create_hotspot_user"
        refused == adds /\ username \in DOMAIN routerUsers
    IN
    /\ mikrotik.made
    /\ m.pools <= MaxPools
    /\ mikrotik' = m
    /\ routerUsers' = IF reached /\ adds /\ ~refused
                      THEN Put(routerUsers, username,
                               [profile |-> "default", limit_uptime |-> NULL])
                      ELSE routerUsers
    /\ lastOp' = [op |-> operation,
                  connects |-> IF Reconnects(mikrotik) THEN 1 ELSE 0,
                  reached |-> reached,
                  result |-> IF reached /\ ~refused THEN "served"
                             ELSE FailureValue(operation),
                  raised |-> FALSE]
    /\ UNCHANGED <<users, userSeq, packages, transactions, txnSeq, now,
                   workers, provisions, plans, stk>>

\* MikroTikAPI.close
close ==
    /\ mikrotik.made
    /\ mikrotik' = [mikrotik EXCEPT !.connection = FALSE, !.api = FALSE, !.alive = FALSE,
                                    !.pools = IF mikrotik.connection
                                              THEN mikrotik.pools - 1 ELSE mikrotik.pools]
    /\ lastOp' = [op |-> "close"]
    /\ UNCHANGED <<users, userSeq, packages, transactions, txnSeq, routerUsers, now,
                   workers, provisions, plans, stk>>

\* the router becomes reachable, or unreachable; an outage may break the
\* session an instance holds
router_switch ==
    /\ \E alive \in {FALSE, mikrotik.alive} :
          mikrotik' = IF mikrotik.router = "up"
                      THEN [mikrotik EXCEPT !.router = "down", !.alive = alive]
                      ELSE [mikrotik EXCEPT !.router = "up"]
    /\ lastOp' = [op |-> "router_switch"]
    /\ UNCHANGED <<users, userSeq, packages, transactions, txnSeq, routerUsers, now,
                   workers, provisions, plans, stk>>

\* ------------------------------------------------------ JSON plan catalog
\* plans: file - the list stored in internet_plans.json
\*        jobs - per request thread, the create_internet_plan call under way:
\*               its request data and the list load_plans returned to it
NoPlans == [file |-> << >>, jobs |-> [w \in Workers |-> Idle]]

PlanNames == {"daily", "weekly"}

\* the JSON objects sent to PUT /api/internet-plans/<id>
PlanUpdateInputs == {[id |-> 1]}

\* dict.update: the keys of data replace or extend those of plan
DictUpdate(plan, data) ==
    [k \in DOMAIN plan \cup DOMAIN data |-> IF k \in DOMAIN data THEN data[k] ELSE plan[k]]

\* next((i for i, p in enumerate(plans) if p['id'] == plan_id), None), as
\* the set holding the first index, or no index
PlanIndex(list, plan_id) ==
    LET hits == {i \in DOMAIN list : list[i].id = plan_id} IN
    IF hits = {} THEN {} ELSE {CHOOSE i \in hits : \A j \in hits : i <= j}

\* list.pop(index)
Pop(list, index) ==
    [i \in 1 .. Len(list) - 1 |-> IF i < index THEN list[i] ELSE list[i + 1]]

\* create_internet_plan up to load_plans; a request without a name is
\* answered 400 before the file is read
plan_load(w, name) ==
    /\ plans.jobs[w].pc = "idle"
    /\ IF name = ""
       THEN /\ lastOp' = [op |-> "plan_load", status |-> 400]
            /\ UNCHANGED plans
       ELSE /\ Len(plans.file) < MaxPlans
            /\ plans' = [plans EXCEPT !.jobs[w] =
                            [pc |-> "loaded", name |-> name, plans |-> plans.file]]
            /\ lastOp' = [op |-> "plan_load", status |-> NULL]
    /\ UNCHANGED <<users, userSeq, packages, transactions, txnSeq, routerUsers, now,
                   workers, provisions, mikrotik, stk>>

\* create_internet_plan from new_plan on: append, save_plans, 201
plan_save(w) ==
    LET job == plans.jobs[w]
        new_plan == [id |-> Len(job.plans) + 1, name |-> job.name]
    IN
    /\ job.pc = "loaded"
    /\ plans' = [plans EXCEPT !.file = Append(job.plans, new_plan), !.jobs[w] = Idle]
    /\ lastOp' = [op |-> "create_internet_plan", status |-> 201, plan |-> new_plan]
    /\ UNCHANGED <<users, userSeq, packages, transactions, txnSeq, routerUsers, now,
                   workers, provisions, mikrotik, stk>>

update_internet_plan(plan_id, data) ==
    LET plan_index == PlanIndex(plans.file, plan_id) IN
    /\ IF plan_index = {}
       THEN /\ lastOp' = [op |-> "update_internet_plan", status |-> 404]
            /\ UNCHANGED plans
       ELSE /\ plans' = [plans EXCEPT !.file =
                            [i \in DOMAIN plans.file |->
                                IF i \in plan_index THEN DictUpdate(plans.file[i], data)
                                ELSE plans.file[i]]]
            /\ lastOp' = [op |-> "update_internet_plan", status |-> 200]
    /\ UNCHANGED <<users, userSeq, packages, transactions, txnSeq, routerUsers, now,
                   workers, provisions, mikrotik, stk>>

delete_internet_plan(plan_id) ==
    LET plan_index == PlanIndex(plans.file, plan_id) IN
    /\ IF plan_index = {}
       THEN /\ lastOp' = [op |-> "delete_internet_plan", status |-> 404]
            /\ UNCHANGED plans
       ELSE /\ plans' = [plans EXCEPT !.file =
                            Pop(plans.file, CHOOSE i \in plan_index : TRUE)]
            /\ lastOp' = [op |-> "delete_internet_plan", status |-> 200]
    /\ UNCHANGED <<users, userSeq, packages, transactions, txnSeq, routerUsers, now,
                   workers, provisions, mikrotik, stk>>

\* ------------------------------------------- gateway client, step by step
\* stk: clock    - the wall clock, in half seconds
\*      job      - the process_payment call under way and its locals
\*      requests - the push requests posted to the gateway, in order
NoRequests == [clock |-> 0, job |-> [pc |-> "idle"], requests |-> << >>]

AccountInputs == {"guest", "alice"}

\* datetime.now().strftime('%Y%m%d%H%M%S'): the clock cut to whole seconds
strftime(clock) == clock \div 2

\* f"FortuNet-{user_id}-{timestamp}"
AccountReference(user_id, clock) == <<"FortuNet", user_id, strftime(clock)>>

\* generate_password: it reads the clock itself
generate_password(clock) == <<"sha256", "paybill", "consumer_secret", strftime(clock)>>

\* process_payment is entered: the account reference is built
stk_reference(user_id) ==
    /\ stk.job.pc = "idle"
    /\ Len(stk.requests) < MaxAttempts
    /\ stk' = [stk EXCEPT !.job = [pc |-> "referenced",
                                   account_reference |-> AccountReference(user_id, stk.clock)]]
    /\ lastOp' = [op |-> "stk_reference"]
    /\ UNCHANGED <<users, userSeq, packages, transactions, txnSeq, routerUsers, now,
                   workers, provisions, mikrotik, plans>>

\* initiate_stk_push: get_access_token; a failure ends the call
stk_token(token_ok) ==
    /\ stk.job.pc = "referenced"
    /\ stk' = [stk EXCEPT !.job = IF token_ok THEN [stk.job EXCEPT !.pc = "token"]
                                  ELSE [pc |-> "idle"]]
    /\ lastOp' = [op |-> "stk_token"]
    /\ UNCHANGED <<users, userSeq, packages, transactions, txnSeq, routerUsers, now,
                   workers, provisions, mikrotik, plans>>

\* initiate_stk_push: timestamp = now().strftime(...)
stk_timestamp ==
    /\ stk.job.pc = "token"
    /\ stk' = [stk EXCEPT !.job = [pc |-> "stamped",
                                   account_reference |-> stk.job.account_reference,
                                   timestamp |-> strftime(stk.clock)]]
    /\ lastOp' = [op |-> "stk_timestamp"]
    /\ UNCHANGED <<users, userSeq, packages, transactions, txnSeq, routerUsers, now,
                   workers, provisions, mikrotik, plans>>

\* initiate_stk_push: password = self.generate_password(), then the request
\* is posted
stk_post ==
    /\ stk.job.pc = "stamped"
    /\ stk' = [stk EXCEPT !.job = [pc |-> "idle"],
                          !.requests = Append(stk.requests,
                              [AccountReference |-> stk.job.account_reference,
                               Timestamp |-> stk.job.timestamp,
                               Password |-> generate_password(stk.clock)])]
    /\ lastOp' = [op |-> "stk_post"]
    /\ UNCHANGED <<users, userSeq, packages, transactions, txnSeq, routerUsers, now,
                   workers, provisions, mikrotik, plans>>

\* the wall clock advances by half a second
clock_tick ==
    /\ stk.clock < MaxClock
    /\ stk' = [stk EXCEPT !.clock = stk.clock + 1]
    /\ lastOp' = [op |-> "clock_tick"]
    /\ UNCHANGED <<users, userSeq, packages, transactions, txnSeq, routerUsers, now,
                   workers, provisions, mikrotik, plans>>


\* ------------------------------------------------------------------ clock
Tick ==
    /\ now < MaxTime
    /\ now' = now + 1
    /\ lastOp' = [op |-> "tick"]
    /\ UNCHANGED <<users, userSeq, packages, transactions, txnSeq, routerUsers, workers, provisions, services>>

\* ---------------------------------------------------------- specification
Init ==
    /\ users = << >>
    /\ userSeq = 0
    /\ packages = insert_default_packages(<< >>)
    /\ transactions = << >>
    /\ txnSeq = 0
    /\ routerUsers = << >>
    /\ now = 1
    /\ lastOp = [op |-> "init"]
    /\ workers = [w \in Workers |-> Idle]
    /\ provisions = [t \in TxnIdInputs |-> 0]
    /\ mikrotik = NoInstance
    /\ plans = NoPlans
    /\ stk = NoRequests

\* the payment workflow: registration, transactions, the payment endpoints
Next ==
    \/ \E ph \in PhoneInputs : create_mac_user("aa:01", ph)
    \/ \E u \in TxnUserInputs, p \in TxnPackageInputs, ph \in PhoneInputs,
          c \in CheckoutIds \cup {NONE} :
          create_transaction(u, p, get_package_by_id(p)[1].price, ph, c)
    \/ \E t \in TxnIdInputs, s \in StatusInputs : update_transaction_status(t, s)
    \/ \E body \in InitiateBodies, gateway \in GatewayInputs :
          initiate_payment(body, gateway[1], gateway[2])
    \/ \E body \in CallbackBodies : mpesa_callback(body)
    \/ Tick

Spec == Init /\ [][Next]_vars

\* the account store and the access provisioner
NextAccounts ==
    \/ \E m \in MacInputs, ph \in PhoneInputs :
          (userSeq < MaxAccounts \/ MacTaken(m)) /\ create_mac_user(m, ph)
    \/ \E n \in UsernameInputs, pw \in PasswordInputs, ph \in PhoneInputs :
          (userSeq < MaxAccounts \/ UsernameTaken(n)) /\ create_user(n, pw, ph)
    \/ \E m \in MacInputs : delete_mac_user(m)
    \/ \E u \in UserIdInputs : update_last_login(u)
    \/ \E u \in UserIdInputs, p \in PackageIdInputs : assign_package_to_user(u, p)
    \/ \E u \in UserIdInputs, p \in PackageIdInputs, router \in RouterInputs :
          activate_user_package(u, p, router)
    \/ \E u \in UserIdInputs : check_user_package_status(u)
    \/ Tick

SpecAccounts == Init /\ [][NextAccounts]_vars

\* registration and removal of accounts
NextRegistration ==
    \/ \E m \in MacInputs, ph \in PhoneInputs : create_mac_user(m, ph)
    \/ \E n \in UsernameInputs, pw \in PasswordInputs, ph \in PhoneInputs : create_user(n, pw, ph)
    \/ \E m \in MacInputs : delete_mac_user(m)
    \/ \E u \in RowIdInputs : update_last_login(u)
    \/ init_database
    \/ Tick

SpecRegistration == Init /\ [][NextRegistration]_vars

\* the handlers as they run in the worker processes, with crashes
NextWorkers ==
    \/ \E ph \in PhoneInputs : create_mac_user("aa:01", ph)
    \/ \E u \in TxnUserInputs, p \in TxnPackageInputs, ph \in PhoneInputs, c \in CheckoutIds :
          create_transaction(u, p, get_package_by_id(p)[1].price, ph, c)
    \/ \E w \in Workers, body \in WorkerBodies : worker_callback(w, body)
    \/ \E w \in Workers : callback_step(w)
    \/ \E w \in Workers, u \in TxnUserInputs, p \in InitiatePackageInputs,
          router \in RouterInputs : worker_activate(w, u, p, router)
    \/ \E w \in Workers : activate_step(w)
    \/ \E w \in Workers : worker_crash(w)

SpecWorkers == Init /\ [][NextWorkers]_vars

\* the MikroTikAPI instance of mikrotik_api.py and its router
NextRouter ==
    \/ initialize_mikrotik
    \/ \E operation \in OperationInputs, username \in HotspotNames :
          router_operation(operation, username)
    \/ close
    \/ router_switch

SpecRouter == Init /\ [][NextRouter]_vars

\* the gateway client building push requests while the clock runs
NextGateway ==
    \/ \E user_id \in AccountInputs : stk_reference(user_id)
    \/ \E token_ok \in BOOLEAN : stk_token(token_ok)
    \/ stk_timestamp
    \/ stk_post
    \/ clock_tick

SpecGateway == Init /\ [][NextGateway]_vars

\* the plan catalog endpoints of mikrotik_api.py served by two threads
NextPlans ==
    \/ \E w \in Workers, name \in PlanNames \cup {""} : plan_load(w, name)
    \/ \E w \in Workers : plan_save(w)
    \/ \E plan_id \in 1 .. MaxPlans, data \in PlanUpdateInputs :
          update_internet_plan(plan_id, data)
    \/ \E plan_id \in 1 .. MaxPlans : delete_internet_plan(plan_id)

SpecPlans == Init /\ [][NextPlans]_vars

\* ------------------------------------------------------------ properties
IsCallback(op) == op.op = "mpesa_callback" /\ op.body.kind = "object"

\* C1: two callbacks with the same CheckoutRequestID and ResultCode 0 for a
\* pending transaction make exactly one transition to `completed` and exactly
\* one invocation of the access provisioner.
C1_CallbackIdempotent ==
    (/\ IsCallback(lastOp)
     /\ lastOp.body.ResultCode = 0
     /\ lastOp.nth = 2
     /\ Cardinality(lastOp.pending) = 1)
    => /\ lastOp.completions = 1
       /\ lastOp.provisions = 1
       /\ \A t \in lastOp.pending : transactions[t].status = "completed"

\* C2: the only status transitions of a transaction are pending -> completed
\* and pending -> failed; a completed or failed transaction keeps its status.
C2_StatusMonotonic ==
    [][\A t \in DOMAIN transactions :
          transactions'[t].status # transactions[t].status
          => /\ transactions[t].status = "pending"
             /\ transactions'[t].status \in {"completed", "failed"}]_vars

\* C3: when the router call of activate_user_package does not report success,
\* the users table (current_package_id, package_expires_at) is left as it was;
\* the assignment is written only after the router reported success.
C3_DivergenceContained ==
    [][(lastOp'.op = "activate_user_package" /\ ~lastOp'.router_ok)
       => users' = users]_vars

C3_Witness ==
    /\ lastOp.op = "activate_user_package"
    /\ lastOp.found
    /\ lastOp.router = "down"
    /\ lastOp.raised
    /\ users[lastOp.user_id].current_package_id # NULL

\* C4: the callback handler answers every callback with a success
\* acknowledgement.
C4_AlwaysAcknowledged ==
    lastOp.op = "mpesa_callback" => lastOp.status = 200

\* C5: after a callback with ResultCode 0 for a pending transaction, the
\* transaction is completed with completed_at set, the provisioner has been
\* invoked and the account holds the purchased package.
C5_SuccessfulPayment ==
    (IsCallback(lastOp) /\ lastOp.body.ResultCode = 0)
    => \A t \in lastOp.pending :
          /\ transactions[t].status = "completed"
          /\ transactions[t].completed_at # NULL
          /\ lastOp.provisions >= 1
          /\ transactions[t].user_id \in DOMAIN users
             => users[transactions[t].user_id].current_package_id = transactions[t].package_id

\* C6: a callback with a ResultCode other than 0 for a pending transaction
\* makes the transaction failed, invokes no provisioning and leaves the
\* accounts as they were.
C6_FailedPayment ==
    [][(IsCallback(lastOp') /\ lastOp'.body.ResultCode \notin {0, NULL})
       => /\ \A t \in Matching(lastOp'.body.CheckoutRequestID) :
                transactions[t].status = "pending" => transactions'[t].status = "failed"
          /\ lastOp'.provisions = 0
          /\ users' = users
          /\ routerUsers' = routerUsers]_vars

\* C7: a callback whose CheckoutRequestID matches no transaction is answered
\* with success, changes no row of users, packages or transactions and makes
\* no provisioning call.
C7_UnmatchedCallback ==
    [][(/\ IsCallback(lastOp')
        /\ lastOp'.body.CheckoutRequestID # NONE
        /\ Matching(lastOp'.body.CheckoutRequestID) = {})
       => /\ lastOp'.status = 200
          /\ users' = users
          /\ packages' = packages
          /\ transactions' = transactions
          /\ routerUsers' = routerUsers
          /\ lastOp'.provisions = 0]_vars

C7_Witness ==
    /\ IsCallback(lastOp)
    /\ lastOp.body.CheckoutRequestID # NONE
    /\ lastOp.matched = {}
    /\ lastOp.status = 200
    /\ \E t \in DOMAIN transactions : transactions[t].status = "pending"
    /\ users # << >>

\* C8: a payment initiation records exactly one new transaction, pending,
\* whose amount is the price of the requested package.
C8_InitiationRecordsTransaction ==
    (lastOp.op = "initiate_payment" /\ lastOp.status = 200)
    => \E t \in DOMAIN transactions \ lastOp.txns_before :
          /\ DOMAIN transactions = lastOp.txns_before \cup {t}
          /\ transactions[t].status = "pending"
          /\ get_package_by_id(lastOp.packageId) # << >>
             => transactions[t].amount = get_package_by_id(lastOp.packageId)[1].price

\* C9: activate_user_package on an existing account and package, with the
\* router reachable and accepting, sets current_package_id to the package and
\* package_expires_at to now + duration_hours.
C9_ActivateSetsExpiry ==
    (/\ lastOp.op = "activate_user_package"
     /\ lastOp.found
     /\ lastOp.router = "accepts")
    => /\ users[lastOp.user_id].current_package_id = lastOp.package_id
       /\ users[lastOp.user_id].package_expires_at
             = now + packages[lastOp.package_id].duration_hours

\* C10: for every account, current_package_id is non-null exactly when
\* package_expires_at is non-null.
C10_AccountInvariant ==
    \A u \in DOMAIN users :
        (users[u].current_package_id # NULL) <=> (users[u].package_expires_at # NULL)

C10_Witness ==
    \E u \in DOMAIN users :
        /\ users[u].current_package_id # NULL
        /\ users[u].package_expires_at # NULL
        /\ users[u].last_login # NULL

\* an initiate-payment request that passed the required-field check
Validated(op) == op.op = "initiate_payment" /\ "phoneNumber" \in DOMAIN op

\* C11: a phone number starting with 0 or + is sent to the gateway as
\* 254712345678; a number with any other prefix is rejected with a 4xx and
\* no request to the gateway is made.
C11_PhoneNormalization ==
    (Validated(lastOp) /\ lastOp.phoneNumber.type = "str")
    => IF lastOp.phoneNumber.value[1] \in {"0", "+"}
       THEN lastOp.push_calls = 1 => lastOp.phone = <<"2", "5", "4">> \o Subscriber
       ELSE /\ lastOp.status \in 400 .. 499
            /\ lastOp.token_calls = 0
            /\ lastOp.push_calls = 0

\* C12: an initiation whose packageId is not an active package is answered
\* 4xx, records no transaction and makes no request to the gateway.
C12_UnknownPackageRejected ==
    (Validated(lastOp) /\ get_package_by_id(lastOp.packageId) = << >>)
    => /\ lastOp.status \in 400 .. 499
       /\ lastOp.token_calls = 0
       /\ lastOp.push_calls = 0
       /\ DOMAIN transactions = lastOp.txns_before

\* C13: an initiation makes at most one token request and at most one push
\* request, a push request only after the token request succeeded, and an
\* initiation that reaches the gateway client makes exactly one token request.
C13_OneTokenThenOnePush ==
    lastOp.op = "initiate_payment"
    => /\ lastOp.token_calls <= 1
       /\ lastOp.push_calls <= 1
       /\ (Validated(lastOp) /\ lastOp.phoneNumber.type = "str") => lastOp.token_calls = 1
       /\ (Validated(lastOp) /\ lastOp.push_calls = 1) => lastOp.token_succeeded
       /\ ~Validated(lastOp) => lastOp.push_calls = 0

\* a token request that failed: no push request follows and nothing is retried
C13_Witness ==
    /\ Validated(lastOp)
    /\ lastOp.token_calls = 1
    /\ ~lastOp.token_succeeded
    /\ lastOp.push_calls = 0
    /\ lastOp.status = 400

\* C14: when the token request or the push request fails, the initiation
\* answers an error and the transaction recorded for the attempt is pending.
C14_GatewayFailureLeavesPending ==
    (/\ Validated(lastOp)
     /\ \/ lastOp.token_calls = 1 /\ ~lastOp.token_succeeded
        \/ lastOp.push_calls = 1 /\ ~lastOp.push_succeeded)
    => /\ lastOp.status \in 400 .. 599
       /\ \E t \in DOMAIN transactions \ lastOp.txns_before :
             transactions[t].status = "pending"

\* C15: after a callback with ResultCode 0 for a pending transaction whose
\* provisioning did not succeed (the account does not hold the package), the
\* transaction is completed and stays so, and the accounts are as they were.
C15_ProvisioningFailureKeepsCompleted ==
    [][(IsCallback(lastOp') /\ lastOp'.body.ResultCode = 0)
       => \A t \in Matching(lastOp'.body.CheckoutRequestID) :
             (/\ transactions[t].status = "pending"
              /\ \/ transactions[t].user_id \notin DOMAIN users'
                 \/ users'[transactions[t].user_id].current_package_id
                        # transactions[t].package_id)
             => /\ transactions'[t].status = "completed"
                /\ users' = users]_vars

\* C18: an initiate-payment body that lacks phoneNumber, packageId, amount or
\* packageName is answered 4xx, no transaction is recorded, no state changes
\* and no request to the gateway is made.
C18_MissingFieldRejected ==
    [][(/\ lastOp'.op = "initiate_payment"
        /\ "fields" \in DOMAIN lastOp'
        /\ ~({"phoneNumber", "packageId", "amount", "packageName"} \subseteq lastOp'.fields))
       => /\ lastOp'.status \in 400 .. 499
          /\ lastOp'.token_calls = 0
          /\ lastOp'.push_calls = 0
          /\ transactions' = transactions
          /\ txnSeq' = txnSeq
          /\ users' = users
          /\ routerUsers' = routerUsers]_vars

C18_Witness ==
    /\ lastOp.op = "initiate_payment"
    /\ "fields" \in DOMAIN lastOp
    /\ lastOp.fields = {"phoneNumber", "amount", "packageName"}
    /\ lastOp.status = 400
    /\ lastOp.token_calls = 0
    /\ transactions # << >>

\* C16: check_user_package_status reports has_active_package exactly when
\* the account exists, its current_package_id is non-null and its
\* package_expires_at is strictly after the time of the read.
C16_EntitlementCheck ==
    lastOp.op = "check_user_package_status"
    => (lastOp.has_active_package
        <=> /\ lastOp.user_id \in DOMAIN users
            /\ users[lastOp.user_id].current_package_id # NULL
            /\ users[lastOp.user_id].package_expires_at > now)

\* a package whose expiry equals the time of the read is reported inactive
C16_Witness ==
    /\ lastOp.op = "check_user_package_status"
    /\ lastOp.user_id \in DOMAIN users
    /\ users[lastOp.user_id].current_package_id # NULL
    /\ users[lastOp.user_id].package_expires_at = now
    /\ ~lastOp.has_active_package

\* C17: activate_user_package raises when the package or the account does
\* not exist, before any router connection, and changes no account row.
C17_ActivateNotFound ==
    [][(/\ lastOp'.op = "activate_user_package"
        /\ \/ get_package_by_id(lastOp'.package_id) = << >>
           \/ get_user_by_id(lastOp'.user_id) = << >>)
       => /\ lastOp'.raised
          /\ ~lastOp'.connected
          /\ users' = users
          /\ routerUsers' = routerUsers]_vars

C17_Witness ==
    /\ lastOp.op = "activate_user_package"
    /\ lastOp.user_id \in DOMAIN users
    /\ get_package_by_id(lastOp.package_id) = << >>
    /\ lastOp.router = "accepts"
    /\ lastOp.raised
    /\ ~lastOp.connected

C21_ConnectionReleased ==
    "conn_closed" \in DOMAIN lastOp => lastOp.conn_closed

\* C22: a router operation never raises; while the router is unreachable it
\* returns its failure value and has attempted the connection again, and an
\* operation issued while the router is reachable connects and is answered
\* by the router.
C22_RouterUnreachableIsNormal ==
    lastOp.op \in OperationInputs
    => /\ ~lastOp.raised
       /\ mikrotik.router = "down"
          => /\ lastOp.result = FailureValue(lastOp.op)
             /\ lastOp.connects = 1
       /\ mikrotik.router = "up" => lastOp.reached
       /\ lastOp.reached => mikrotik.api /\ mikrotik.alive

\* an operation is served by a connection made after failed attempts
C22_Witness ==
    /\ lastOp.op = "create_hotspot_user"
    /\ lastOp.result = "served"
    /\ lastOp.connects = 1
    /\ mikrotik.pools >= 2

\* C29: a MikroTikAPI instance has at most one pool that was created and not
\* disconnected.
C29_SinglePool ==
    mikrotik.pools <= 1

\* C23: any two push requests posted to the gateway carry different account
\* references.
C23_UniqueAccountReference ==
    \A i, j \in DOMAIN stk.requests :
        i # j => stk.requests[i].AccountReference # stk.requests[j].AccountReference

\* C24: in every push request posted, Password is the hash made with the
\* value of the Timestamp field of that request.
C24_PasswordUsesRequestTimestamp ==
    \A i \in DOMAIN stk.requests :
        stk.requests[i].Password
            = <<"sha256", "paybill", "consumer_secret", stk.requests[i].Timestamp>>

\* C25: every account has either a MAC address and no username and password,
\* or a username with a password hash and no MAC address; no two accounts
\* share a MAC address or a username; and a registration either raises and
\* leaves the users table as it was, or adds exactly one row.
C25_OneIdentityScheme ==
    /\ [](\A u \in DOMAIN users :
            /\ users[u].mac_address # NONE
               => users[u].username = NONE /\ users[u].password = NONE
            /\ users[u].mac_address = NONE
               => users[u].username # NONE /\ users[u].password # NONE
            /\ \A v \in DOMAIN users \ {u} :
                  /\ users[u].mac_address # NONE => users[v].mac_address # users[u].mac_address
                  /\ users[u].username # NONE => users[v].username # users[u].username)
    /\ [][lastOp'.op \in {"create_mac_user", "create_user"}
          => IF lastOp'.raised
             THEN users' = users
             ELSE Cardinality(DOMAIN users') = Cardinality(DOMAIN users) + 1]_vars

\* with a MAC account and a username account registered, a registration with
\* the username already in use was refused
C25_Witness ==
    /\ lastOp.op = "create_user"
    /\ lastOp.raised
    /\ \E u \in DOMAIN users : users[u].username = "alice" /\ users[u].mac_address = NONE
    /\ \E u \in DOMAIN users : users[u].mac_address = "aa:01"

\* C26: a transaction has a completed_at exactly when its status is
\* completed.
C26_CompletedAtIffCompleted ==
    \A t \in DOMAIN transactions :
        transactions[t].completed_at # NULL <=> transactions[t].status = "completed"

\* a transaction that was completed and then set to failed has lost its
\* completion time
C26_Witness ==
    /\ lastOp.op = "update_transaction_status"
    /\ \E t \in DOMAIN transactions :
          /\ transactions[t].status = "failed"
          /\ transactions[t].completed_at = NULL
    /\ now > 1

\* C30: however often init_database runs, the packages table holds exactly
\* the 12 default packages, each row as it was inserted.
C30_InitDatabaseIdempotent ==
    /\ [](/\ Len(packages) = 12
          /\ \A i \in 1 .. 12 : packages[i] = all_packages[i])
    /\ [][lastOp'.op = "init_database" => packages' = packages]_vars

\* init_database ran again on a database that has accounts
C30_Witness ==
    /\ lastOp.op = "init_database"
    /\ users # << >>
    /\ Len(packages) = 12

\* C27: no two plans stored in the plan catalog have the same id.
C27_UniquePlanIds ==
    \A i, j \in DOMAIN plans.file :
        i # j => plans.file[i].id # plans.file[j].id

\* C28: a create_internet_plan request that returns 201 leaves every plan
\* that was stored when it saved in the stored document, so that the plans
\* of two concurrent requests are both stored once both have returned.
C28_NoLostUpdate ==
    [][lastOp'.op = "create_internet_plan"
       => \A i \in DOMAIN plans.file :
             \E j \in DOMAIN plans'.file : plans'.file[j] = plans.file[i]]_vars

====
